---- MODULE Spec2Model ----
(***************************************************************************)
(* PresentationController (src/script.js): the slide navigation and mode   *)
(* controller of a browser presentation, with the browser facilities its   *)
(* handlers use (timers, the URL fragment, the fullscreen element).        *)
(*                                                                         *)
(* Time is counted in milliseconds.  A pending setTimeout is a record of   *)
(* the timers sequence with the time it still has to wait; Advance lets    *)
(* time pass up to the next deadline and a callback runs when its timer    *)
(* has no time left.  Handlers are operators from a state record to a      *)
(* state record, composed as the methods call each other.                  *)
(***************************************************************************)
EXTENDS Integers, Sequences, FiniteSets, TLC

\* ---------------------------------------------------------------- constants

totalSlides == 7
swipeThreshold == 50
LoadDelay == 2500
LoadingRemoveDelay == 800
EnterDelay == 50
CleanupDelay == 800
CursorDelay == 3000
AnnounceDelay == 1000

\* ------------------------------------------------------------------- bounds

\* Navigations whose announcement node is still in the document.
MaxPending == 1
\* Fullscreen requests the browser has not answered yet.
MaxRequests == 1

\* Navigations under way at once, where they may overlap.
MaxOverlap == 3

Slides == 1..totalSlides

\* What parseInt returns for a text that starts with no digit.  Every
\* comparison with it is false (GE, LE below).
NaN == -1

\* ------------------------------------------------------------------ strings
\* A string the code inspects character by character is a sequence of
\* one-character strings.

Digits == <<"0", "1", "2", "3", "4", "5", "6", "7", "8", "9">>

IsDigit(c) == \E i \in 1..10 : Digits[i] = c

DigitVal(c) == (CHOOSE i \in 1..10 : Digits[i] = c) - 1

RECURSIVE DigitsValue(_)
DigitsValue(ds) ==
  IF ds = <<>> THEN 0
  ELSE DigitsValue(SubSeq(ds, 1, Len(ds) - 1)) * 10 + DigitVal(ds[Len(ds)])

\* parseInt(text): the value of the longest prefix of decimal digits, NaN
\* when there is none.  (Leading blanks and a sign, which parseInt also
\* accepts, occur in no text the controller parses.)
ParseInt(str) ==
  LET n == CHOOSE k \in 0..Len(str) :
             /\ \A i \in 1..k : IsDigit(str[i])
             /\ (k < Len(str) => ~IsDigit(str[k + 1]))
  IN  IF n = 0 THEN NaN ELSE DigitsValue(SubSeq(str, 1, n))

GE(a, b) == a # NaN /\ b # NaN /\ a >= b
LE(a, b) == a # NaN /\ b # NaN /\ a <= b
LT(a, b) == a # NaN /\ b # NaN /\ a < b
GT(a, b) == a # NaN /\ b # NaN /\ a > b

\* `${n}` for NaN and for n >= 0.
RECURSIVE ToChars(_)
ToChars(n) ==
  IF n = NaN THEN <<"N", "a", "N">>
  ELSE IF n < 10 THEN <<Digits[n + 1]>>
  ELSE ToChars(n \div 10) \o <<Digits[(n % 10) + 1]>>

SlidePrefix == <<"#", "s", "l", "i", "d", "e">>

\* `#slide${n}`
SlideHash(n) == SlidePrefix \o ToChars(n)

\* hash.match(/#slide(\\d+)/): in a regular expression literal \\ is an
\* escaped backslash, so the pattern is "#slide", a backslash, and one or
\* more letters d.  The result is the first (leftmost, longest) match:
\* found tells whether there is one, group is the text of ( ... ).
SlideMatch(hash) ==
  LET starts == {i \in 1..Len(hash) :
                   /\ i + 7 <= Len(hash)
                   /\ SubSeq(hash, i, i + 5) = SlidePrefix
                   /\ hash[i + 6] = "\\"
                   /\ hash[i + 7] = "d"}
  IN  IF starts = {} THEN [found |-> FALSE, group |-> <<>>]
      ELSE LET i == CHOOSE a \in starts : \A b \in starts : a <= b
               j == CHOOSE e \in (i + 7)..Len(hash) :
                      /\ \A m \in (i + 7)..e : hash[m] = "d"
                      /\ (e < Len(hash) => hash[e + 1] # "d")
           IN  [found |-> TRUE, group |-> SubSeq(hash, i + 6, j)]

\* -------------------------------------------------------------------- state

VARIABLES
  \* PresentationController fields
  currentSlide, isFullscreen, isPresentationMode, soundEnabled,
  touchStartX, touchEndX, cursorTimeout, isLoaded,
  \* the document, as the controller writes it
  slideClass,         \* slide -> subset of {"active", "prev"}
  ariaHidden,         \* slide -> aria-hidden
  navDots,            \* dot -> has class active
  progressWidth,      \* <<p, q>>: the width is p/q percent
  presentationClass,  \* subset of {"presentation-mode", "fullscreen"}
  soundToggle,        \* [muted, icon]
  loadingScreen,      \* "shown", "hidden" (class), "none" (display)
  announcements,      \* the aria-live nodes in the body: their slide numbers
  animated,           \* slide whose reveal animations were last triggered, 0: none
  \* the browser
  hash,               \* window.location.hash
  timers,             \* pending setTimeout calls, oldest first
  fullscreenElement,  \* document.fullscreenElement is set
  fsRequests,         \* requestFullscreen/exitFullscreen calls not yet answered
  fsEvents,           \* fullscreenchange notifications not yet delivered
  \* observation
  touchDown,          \* screenX where the finger now down touched, -1: no finger
  sinceMove,          \* ms since the last mouse movement, at most CursorDelay
  sinceActive,        \* ms since presentation mode last became active, same cap
  last                \* the last event: what it was and what it gave out

vars == <<currentSlide, isFullscreen, isPresentationMode, soundEnabled,
          touchStartX, touchEndX, cursorTimeout, isLoaded, slideClass,
          ariaHidden, navDots, progressWidth, presentationClass, soundToggle,
          loadingScreen, announcements, animated, hash, timers,
          fullscreenElement, fsRequests, fsEvents, touchDown, sinceMove,
          sinceActive, last>>

\* The current state as one record: the `this` (and document, window) that
\* the methods below read and return updated.
State ==
  [currentSlide |-> currentSlide, isFullscreen |-> isFullscreen,
   isPresentationMode |-> isPresentationMode, soundEnabled |-> soundEnabled,
   touchStartX |-> touchStartX, touchEndX |-> touchEndX,
   cursorTimeout |-> cursorTimeout, isLoaded |-> isLoaded,
   slideClass |-> slideClass, ariaHidden |-> ariaHidden, navDots |-> navDots,
   progressWidth |-> progressWidth, presentationClass |-> presentationClass,
   soundToggle |-> soundToggle, loadingScreen |-> loadingScreen,
   announcements |-> announcements, animated |-> animated, hash |-> hash,
   timers |-> timers, fullscreenElement |-> fullscreenElement,
   fsRequests |-> fsRequests, fsEvents |-> fsEvents, touchDown |-> touchDown,
   sinceMove |-> sinceMove, sinceActive |-> sinceActive, last |-> last]

\* The event that is being handled, before its handler has run.
Event(op, key, n) ==
  [op |-> op, key |-> key, n |-> n, nav |-> "none", played |-> FALSE]

On(op, key, n) == [State EXCEPT !.last = Event(op, key, n)]

\* ------------------------------------------------------------------ methods

setTimeout(s, kind, arg, delay) ==
  [s EXCEPT !.timers =
     Append(@, [kind |-> kind, rem |-> delay, arg |-> arg, held |-> FALSE])]

\* updateProgress counting slides from 0.
UpdateProgressFromZero(s) ==
  [s EXCEPT !.progressWidth = <<(s.currentSlide - 1) * 100, totalSlides>>]

updateProgress(s) ==
  [s EXCEPT !.progressWidth = <<s.currentSlide * 100, totalSlides>>]

updateNavDots(s) ==
  [s EXCEPT !.navDots = [d \in Slides |-> d = s.currentSlide]]

updateURL(s) ==
  LET newHash == SlideHash(s.currentSlide)
  IN  IF s.hash # newHash THEN [s EXCEPT !.hash = newHash] ELSE s

\* The reveal animations restyle elements inside the slide; the model keeps
\* which slide they were last triggered for.
triggerSlideAnimations(s, slideNumber) ==
  [s EXCEPT !.animated = slideNumber]

\* The tone, or the failed attempt at one, leaves nothing behind in the
\* controller: the attempt is recorded with the event.
playTransitionSound(s) ==
  IF ~s.soundEnabled THEN s ELSE [s EXCEPT !.last.played = TRUE]

announceSlideChange(s) ==
  setTimeout([s EXCEPT !.announcements = Append(@, s.currentSlide)],
             "announce", s.currentSlide, AnnounceDelay)

\* goToSlide that leaves the 'active' mark on the slide it leaves.
GoToSlideKeepsActive(s, slideNumber) ==
  IF LT(slideNumber, 1) \/ GT(slideNumber, totalSlides)
       \/ slideNumber = s.currentSlide
  THEN s
  ELSE LET previous == s.currentSlide
           s1 == [s EXCEPT !.slideClass[previous] = @ \cup {"prev"},
                           !.currentSlide = slideNumber]
           s2 == setTimeout(s1, "enter", previous, EnterDelay)
           s3 == updateURL(updateNavDots(updateProgress(s2)))
           s4 == triggerSlideAnimations(s3, s3.currentSlide)
       IN  announceSlideChange(playTransitionSound(s4))

\* goToSlide with the upper bound off by one: the last slide is refused.
GoToSlideOffByOne(s, slideNumber) ==
  IF LT(slideNumber, 1) \/ GE(slideNumber, totalSlides)
       \/ slideNumber = s.currentSlide
  THEN s
  ELSE LET previous == s.currentSlide
           s1 == [s EXCEPT !.slideClass[previous] =
                             (@ \ {"active"}) \cup {"prev"},
                           !.currentSlide = slideNumber]
           s2 == setTimeout(s1, "enter", previous, EnterDelay)
           s3 == updateURL(updateNavDots(updateProgress(s2)))
           s4 == triggerSlideAnimations(s3, s3.currentSlide)
       IN  announceSlideChange(playTransitionSound(s4))

\* goToSlide without the test for the current slide.
GoToSlideAgain(s, slideNumber) ==
  IF LT(slideNumber, 1) \/ GT(slideNumber, totalSlides)
  THEN s
  ELSE LET previous == s.currentSlide
           s1 == [s EXCEPT !.slideClass[previous] =
                             (@ \ {"active"}) \cup {"prev"},
                           !.currentSlide = slideNumber]
           s2 == setTimeout(s1, "enter", previous, EnterDelay)
           s3 == updateURL(updateNavDots(updateProgress(s2)))
           s4 == triggerSlideAnimations(s3, s3.currentSlide)
       IN  announceSlideChange(playTransitionSound(s4))

\* goToSlide without the upper bound.
GoToSlideNoUpper(s, slideNumber) ==
  IF LT(slideNumber, 1) \/ slideNumber = s.currentSlide
  THEN s
  ELSE LET previous == s.currentSlide
           s1 == [s EXCEPT !.slideClass[previous] =
                             (@ \ {"active"}) \cup {"prev"},
                           !.currentSlide = slideNumber]
           s2 == setTimeout(s1, "enter", previous, EnterDelay)
           s3 == updateURL(updateNavDots(updateProgress(s2)))
           s4 == triggerSlideAnimations(s3, s3.currentSlide)
       IN  announceSlideChange(playTransitionSound(s4))

\* PresentationController.prototype.goToSlide
originalGoToSlide(s, slideNumber) ==
  IF LT(slideNumber, 1) \/ GT(slideNumber, totalSlides)
       \/ slideNumber = s.currentSlide
  THEN s
  ELSE LET previous == s.currentSlide
           s1 == [s EXCEPT !.slideClass[previous] =
                             (@ \ {"active"}) \cup {"prev"},
                           !.currentSlide = slideNumber]
           s2 == setTimeout(s1, "enter", previous, EnterDelay)
           s3 == updateURL(updateNavDots(updateProgress(s2)))
           s4 == triggerSlideAnimations(s3, s3.currentSlide)
       IN  announceSlideChange(playTransitionSound(s4))

\* this.goToSlide as setupAccessibility leaves it: the method above, then
\* aria-hidden rewritten on every slide.
goToSlide(s, slideNumber) ==
  LET s1 == originalGoToSlide(s, slideNumber)
  IN  [s1 EXCEPT !.ariaHidden = [i \in Slides |-> i # s1.currentSlide],
                 !.last.nav = "goto"]

\* nextSlide that wraps around to the first slide.
NextSlideWraps(s) ==
  LET s1 == IF s.currentSlide < totalSlides
            THEN goToSlide(s, s.currentSlide + 1) ELSE goToSlide(s, 1)
  IN  [s1 EXCEPT !.last.nav = "next"]

nextSlide(s) ==
  LET s1 == IF s.currentSlide < totalSlides
            THEN goToSlide(s, s.currentSlide + 1) ELSE s
  IN  [s1 EXCEPT !.last.nav = "next"]

previousSlide(s) ==
  LET s1 == IF s.currentSlide > 1
            THEN goToSlide(s, s.currentSlide - 1) ELSE s
  IN  [s1 EXCEPT !.last.nav = "prev"]

\* handleHashNavigation without the range test on the parsed number.
HashNavigationUnchecked(s) ==
  LET slideMatch == SlideMatch(s.hash)
  IN  IF slideMatch.found
      THEN goToSlide(s, ParseInt(slideMatch.group))
      ELSE s

handleHashNavigation(s) ==
  LET slideMatch == SlideMatch(s.hash)
  IN  IF slideMatch.found
      THEN LET slideNumber == ParseInt(slideMatch.group)
           IN  IF GE(slideNumber, 1) /\ LE(slideNumber, totalSlides)
               THEN goToSlide(s, slideNumber) ELSE s
      ELSE s

enterFullscreen(s) == [s EXCEPT !.fsRequests = Append(@, "enter")]

exitFullscreen(s) == [s EXCEPT !.fsRequests = Append(@, "exit")]

\* toggleFullscreen that flips isFullscreen itself.
ToggleFullscreenOptimistic(s) ==
  IF ~s.isFullscreen THEN enterFullscreen([s EXCEPT !.isFullscreen = TRUE])
  ELSE exitFullscreen([s EXCEPT !.isFullscreen = FALSE])

toggleFullscreen(s) ==
  IF ~s.isFullscreen THEN enterFullscreen(s) ELSE exitFullscreen(s)

clearCursorTimeout(s) ==
  IF s.cursorTimeout # "null"
  THEN [s EXCEPT !.timers = SelectSeq(@, LAMBDA t : ~t.held),
                 !.cursorTimeout = "null"]
  ELSE s

\* startCursorTimeout without the call of clearCursorTimeout.
StartCursorTimeoutNoClear(s) ==
  [s EXCEPT !.timers = Append(@, [kind |-> "cursor", rem |-> CursorDelay,
                                  arg |-> 0, held |-> TRUE]),
            !.cursorTimeout = "id"]

\* The handle in cursorTimeout is the timer whose held is TRUE; it stays in
\* the field, stale, after that timer has fired.
startCursorTimeout(s) ==
  LET s1 == clearCursorTimeout(s)
  IN  [s1 EXCEPT !.timers = Append(@, [kind |-> "cursor", rem |-> CursorDelay,
                                       arg |-> 0, held |-> TRUE]),
                 !.cursorTimeout = "id"]

enterPresentationMode(s) ==
  startCursorTimeout(
    [s EXCEPT !.isPresentationMode = TRUE,
              !.presentationClass = @ \cup {"presentation-mode"}])

\* exitPresentationMode that leaves the class on the presentation.
ExitPresentationModeKeepsClass(s) ==
  clearCursorTimeout([s EXCEPT !.isPresentationMode = FALSE])

\* exitPresentationMode without the call of clearCursorTimeout.
ExitPresentationModeKeepsTimer(s) ==
  [s EXCEPT !.isPresentationMode = FALSE,
            !.presentationClass = @ \ {"presentation-mode"}]

exitPresentationMode(s) ==
  clearCursorTimeout(
    [s EXCEPT !.isPresentationMode = FALSE,
              !.presentationClass = @ \ {"presentation-mode"}])

togglePresentationMode(s) ==
  IF ~s.isPresentationMode THEN enterPresentationMode(s)
  ELSE exitPresentationMode(s)

\* handleFullscreenChange without the call of enterPresentationMode.
HandleFullscreenChangeFlagOnly(s) ==
  LET s1 == [s EXCEPT !.isFullscreen = s.fullscreenElement]
  IN  [s1 EXCEPT !.presentationClass =
                   IF s1.isFullscreen THEN @ \cup {"fullscreen"}
                   ELSE @ \ {"fullscreen"}]

handleFullscreenChange(s) ==
  LET s1 == [s EXCEPT !.isFullscreen = s.fullscreenElement]
      s2 == [s1 EXCEPT !.presentationClass =
                         IF s1.isFullscreen THEN @ \cup {"fullscreen"}
                         ELSE @ \ {"fullscreen"}]
  IN  IF s2.isFullscreen THEN enterPresentationMode(s2) ELSE s2

handleMouseMove(s) ==
  IF s.isPresentationMode
  THEN startCursorTimeout(
         [s EXCEPT !.presentationClass = @ \ {"presentation-mode"}])
  ELSE s

\* toggleSound that can only mute.
ToggleSoundMutes(s) ==
  [s EXCEPT !.soundEnabled = FALSE,
            !.soundToggle = [muted |-> TRUE, icon |-> "fas fa-volume-mute"]]

toggleSound(s) ==
  LET s1 == [s EXCEPT !.soundEnabled = ~s.soundEnabled]
  IN  [s1 EXCEPT !.soundToggle =
         [muted |-> ~s1.soundEnabled,
          icon |-> IF s1.soundEnabled THEN "fas fa-volume-up"
                   ELSE "fas fa-volume-mute"]]

NextKeys == {"ArrowRight", " ", "PageDown"}
PrevKeys == {"ArrowLeft", "PageUp"}
DigitKeys == {"1", "2", "3", "4", "5", "6", "7"}

\* handleKeyDown without the case for the space bar.
HandleKeyDownNoSpace(s, key) ==
  IF ~s.isLoaded THEN s
  ELSE CASE key \in {"ArrowRight", "PageDown"} -> nextSlide(s)
         [] key \in PrevKeys -> previousSlide(s)
         [] key = "Home" -> goToSlide(s, 1)
         [] key = "End" -> goToSlide(s, totalSlides)
         [] key \in {"f", "F"} -> toggleFullscreen(s)
         [] key = "Escape" ->
              exitPresentationMode(
                IF s.isFullscreen THEN exitFullscreen(s) ELSE s)
         [] key \in {"p", "P"} -> togglePresentationMode(s)
         [] key \in DigitKeys ->
              LET slideNum == ParseInt(<<key>>)
              IN  IF LE(slideNum, totalSlides) THEN goToSlide(s, slideNum)
                  ELSE s
         [] OTHER -> s

handleKeyDown(s, key) ==
  IF ~s.isLoaded THEN s
  ELSE CASE key \in NextKeys -> nextSlide(s)
         [] key \in PrevKeys -> previousSlide(s)
         [] key = "Home" -> goToSlide(s, 1)
         [] key = "End" -> goToSlide(s, totalSlides)
         [] key \in {"f", "F"} -> toggleFullscreen(s)
         [] key = "Escape" ->
              exitPresentationMode(
                IF s.isFullscreen THEN exitFullscreen(s) ELSE s)
         [] key \in {"p", "P"} -> togglePresentationMode(s)
         [] key \in DigitKeys ->
              LET slideNum == ParseInt(<<key>>)
              IN  IF LE(slideNum, totalSlides) THEN goToSlide(s, slideNum)
                  ELSE s
         [] OTHER -> s

handleTouchStart(s, screenX) ==
  IF ~s.isLoaded THEN s ELSE [s EXCEPT !.touchStartX = screenX]

Abs(x) == IF x < 0 THEN 0 - x ELSE x

handleSwipe(s) ==
  LET swipeDistance == s.touchEndX - s.touchStartX
  IN  IF Abs(swipeDistance) > swipeThreshold
      THEN IF swipeDistance > 0 THEN previousSlide(s) ELSE nextSlide(s)
      ELSE s

handleTouchEnd(s, screenX) ==
  IF ~s.isLoaded THEN s ELSE handleSwipe([s EXCEPT !.touchEndX = screenX])

\* The callback handleInitialLoad schedules.
loadCallback(s) ==
  LET s1 == [s EXCEPT !.loadingScreen = "hidden", !.isLoaded = TRUE]
      s2 == setTimeout(s1, "loadingRemove", 0, LoadingRemoveDelay)
      s3 == handleHashNavigation(s2)
  IN  triggerSlideAnimations(s3, s3.currentSlide)

\* The first callback goToSlide schedules, for the slide that was left.
enterCallback(s, previous) ==
  setTimeout(
    [s EXCEPT !.slideClass[s.currentSlide] = (@ \cup {"active"}) \ {"prev"}],
    "cleanup", previous, CleanupDelay)

\* The second callback clearing the mark of the slide that is current when
\* it runs.
CleanupCallbackOnCurrent(s, previous) ==
  [s EXCEPT !.slideClass[s.currentSlide] = @ \ {"prev"}]

\* The second one.
cleanupCallback(s, previous) ==
  [s EXCEPT !.slideClass[previous] = @ \ {"prev"}]

cursorCallback(s) ==
  IF s.isPresentationMode
  THEN [s EXCEPT !.presentationClass = @ \cup {"presentation-mode"}]
  ELSE s

RemoveFirst(seq, x) ==
  LET i == CHOOSE k \in 1..Len(seq) :
             seq[k] = x /\ \A m \in 1..(k - 1) : seq[m] # x
  IN  SubSeq(seq, 1, i - 1) \o SubSeq(seq, i + 1, Len(seq))

announceCallback(s, node) ==
  [s EXCEPT !.announcements = RemoveFirst(@, node)]

getCurrentSlideInfo(s) ==
  [current |-> s.currentSlide, total |-> totalSlides,
   isFullscreen |-> s.isFullscreen,
   isPresentationMode |-> s.isPresentationMode]

\* --------------------------------------------------------------------- init

\* The page as it is served (index.html): the first slide is the active
\* one, the loading screen is shown, the sound button is not muted.
InitialSlideClass == [i \in Slides |-> IF i = 1 THEN {"active"} ELSE {}]

InitialSoundToggle == [muted |-> FALSE, icon |-> "fas fa-volume-up"]

\* URL fragments the page is opened with or is sent to.
NoHash == <<>>
BackslashD == SlidePrefix \o <<"\\", "d">>
Hashes ==
  {NoHash, SlideHash(1), SlideHash(4), SlideHash(totalSlides), SlideHash(0),
   SlideHash(totalSlides + 1), SlideHash(12), SlidePrefix,
   <<"#", "p", "a", "g", "e", "4">>, BackslashD}

\* The constructor and init(), for a page opened with fragment h.
InitWith(h) ==
  /\ currentSlide = 1
  /\ isFullscreen = FALSE
  /\ isPresentationMode = FALSE
  /\ soundEnabled = TRUE
  /\ touchStartX = 0
  /\ touchEndX = 0
  /\ cursorTimeout = "null"
  /\ isLoaded = FALSE
  /\ slideClass = InitialSlideClass
  /\ ariaHidden = [i \in Slides |-> i # 1]
  /\ navDots = [d \in Slides |-> d = 1]
  /\ progressWidth = <<1 * 100, totalSlides>>
  /\ presentationClass = {}
  /\ soundToggle = InitialSoundToggle
  /\ loadingScreen = "shown"
  /\ announcements = <<>>
  /\ animated = 0
  /\ hash = h
  /\ timers = <<[kind |-> "load", rem |-> LoadDelay, arg |-> 0, held |-> FALSE]>>
  /\ fullscreenElement = FALSE
  /\ fsRequests = <<>>
  /\ fsEvents = 0
  /\ touchDown = -1
  /\ sinceMove = CursorDelay
  /\ sinceActive = 0
  /\ last = Event("init", "", 0)

\* The page once the load callback and the callback that removes the
\* loading screen have run, opened with no fragment and not yet touched.
InitLoaded ==
  /\ currentSlide = 1
  /\ isFullscreen = FALSE
  /\ isPresentationMode = FALSE
  /\ soundEnabled = TRUE
  /\ touchStartX = 0
  /\ touchEndX = 0
  /\ cursorTimeout = "null"
  /\ isLoaded = TRUE
  /\ slideClass = InitialSlideClass
  /\ ariaHidden = [i \in Slides |-> i # 1]
  /\ navDots = [d \in Slides |-> d = 1]
  /\ progressWidth = <<1 * 100, totalSlides>>
  /\ presentationClass = {}
  /\ soundToggle = InitialSoundToggle
  /\ loadingScreen = "none"
  /\ announcements = <<>>
  /\ animated = 1
  /\ hash = NoHash
  /\ timers = <<>>
  /\ fullscreenElement = FALSE
  /\ fsRequests = <<>>
  /\ fsEvents = 0
  /\ touchDown = -1
  /\ sinceMove = CursorDelay
  /\ sinceActive = 0
  /\ last = Event("loadingRemove", "", 0)

Init == \E h \in Hashes : InitWith(h)

\* ------------------------------------------------------------------ actions


\* The handler has returned state s.  sinceActive and sinceMove are kept for
\* the current activation of presentation mode only.
Becomes(s) ==
  LET fresh == ~s.isPresentationMode \/ ~isPresentationMode
  IN  /\ Len(s.fsRequests) <= MaxRequests
      /\ currentSlide' = s.currentSlide
      /\ isFullscreen' = s.isFullscreen
      /\ isPresentationMode' = s.isPresentationMode
      /\ soundEnabled' = s.soundEnabled
      /\ touchStartX' = s.touchStartX
      /\ touchEndX' = s.touchEndX
      /\ cursorTimeout' = s.cursorTimeout
      /\ isLoaded' = s.isLoaded
      /\ slideClass' = s.slideClass
      /\ ariaHidden' = s.ariaHidden
      /\ navDots' = s.navDots
      /\ progressWidth' = s.progressWidth
      /\ presentationClass' = s.presentationClass
      /\ soundToggle' = s.soundToggle
      /\ loadingScreen' = s.loadingScreen
      /\ announcements' = s.announcements
      /\ animated' = s.animated
      /\ hash' = s.hash
      /\ timers' = s.timers
      /\ fullscreenElement' = s.fullscreenElement
      /\ fsRequests' = s.fsRequests
      /\ fsEvents' = s.fsEvents
      /\ touchDown' = s.touchDown
      /\ sinceMove' = IF fresh THEN CursorDelay ELSE s.sinceMove
      /\ sinceActive' = IF fresh THEN 0 ELSE s.sinceActive
      /\ last' = s.last

\* document keydown
KeyDown(key) == Becomes(handleKeyDown(On("keydown", key, 0), key))

\* document touchstart and touchend, one finger: n is the distance the
\* finger has travelled since it touched.
TouchStart(screenX) ==
  /\ touchDown = -1
  /\ Becomes(handleTouchStart(
       [On("touchstart", "", 0) EXCEPT !.touchDown = screenX], screenX))

TouchEnd(screenX) ==
  /\ touchDown # -1
  /\ Becomes(handleTouchEnd(
       [On("touchend", "", screenX - touchDown) EXCEPT !.touchDown = -1],
       screenX))

\* click on navigation dot number index + 1
DotClick(n) == Becomes(goToSlide(On("dot", "", n), n))

\* click on the sound button
SoundClick == Becomes(toggleSound(On("sound", "", 0)))

\* document mousemove
MouseMove ==
  Becomes([handleMouseMove(On("mousemove", "", 0)) EXCEPT
             !.sinceMove = IF isPresentationMode THEN 0 ELSE @])

\* The fragment changes to h (the address bar, a link) and hashchange is
\* delivered.
HashChange(h) ==
  /\ h # hash
  /\ Becomes(handleHashNavigation([On("hashchange", "", 0) EXCEPT !.hash = h]))

\* A fullscreenchange notification is delivered.
FullscreenChange ==
  /\ fsEvents > 0
  /\ Becomes(handleFullscreenChange(
       [On("fullscreenchange", "", 0) EXCEPT !.fsEvents = @ - 1]))

\* The browser answers the oldest fullscreen request: it grants it or not,
\* and queues a notification if the fullscreen element changed.
BrowserAnswer(grant) ==
  /\ fsRequests # <<>>
  /\ fsEvents < MaxRequests
  /\ LET want == (Head(fsRequests) = "enter")
         change == grant /\ want # fullscreenElement
     IN  Becomes([On("browser", "", 0) EXCEPT
                    !.fsRequests = Tail(@),
                    !.fullscreenElement = IF change THEN want ELSE @,
                    !.fsEvents = IF change THEN @ + 1 ELSE @])

\* The user leaves fullscreen with the browser's own control.
BrowserLeave ==
  /\ fullscreenElement
  /\ fsEvents < MaxRequests
  /\ Becomes([On("browser", "", 0) EXCEPT !.fullscreenElement = FALSE,
                                          !.fsEvents = @ + 1])

\* Calls from other scripts on window.presentation.
CallGoToSlide(n) == Becomes(goToSlide(On("goToSlide", "", n), n))

CallNextSlide == Becomes(nextSlide(On("nextSlide", "", 0)))

CallPreviousSlide == Becomes(previousSlide(On("previousSlide", "", 0)))

CallToggleFullscreen ==
  Becomes(toggleFullscreen(On("toggleFullscreen", "", 0)))

CallEnterFullscreen == Becomes(enterFullscreen(On("enterFullscreen", "", 0)))

CallExitFullscreen == Becomes(exitFullscreen(On("exitFullscreen", "", 0)))

\* The timer whose callback runs next: the oldest one that is due.
IsDue(i) == i \in 1..Len(timers) /\ timers[i].rem = 0
DueIndex == CHOOSE i \in 1..Len(timers) : IsDue(i) /\ \A j \in 1..(i - 1) : ~IsDue(j)
DueKind(kind) == (\E i \in 1..Len(timers) : IsDue(i)) /\ timers[DueIndex].kind = kind

DropTimer(s, i) ==
  [s EXCEPT !.timers = SubSeq(@, 1, i - 1) \o SubSeq(@, i + 1, Len(@))]

Fired(op) == DropTimer(On(op, "", 0), DueIndex)

LoadComplete == DueKind("load") /\ Becomes(loadCallback(Fired("load")))

LoadingScreenRemoved ==
  /\ DueKind("loadingRemove")
  /\ Becomes([Fired("loadingRemove") EXCEPT !.loadingScreen = "none"])

SlideEnter ==
  /\ DueKind("enter")
  /\ Becomes(enterCallback(Fired("enter"), timers[DueIndex].arg))

SlideCleanup ==
  /\ DueKind("cleanup")
  /\ Becomes(cleanupCallback(Fired("cleanup"), timers[DueIndex].arg))

CursorHide == DueKind("cursor") /\ Becomes(cursorCallback(Fired("cursor")))

AnnouncementRemoved ==
  /\ DueKind("announce")
  /\ Becomes(announceCallback(Fired("announce"), timers[DueIndex].arg))

Min(a, b) == IF a < b THEN a ELSE b

\* d ms pass, or as many as are left until the next deadline.
Advance(d) ==
  /\ \A i \in 1..Len(timers) : timers[i].rem > 0
  /\ timers # <<>> \/ (isPresentationMode /\ (sinceMove < CursorDelay \/ sinceActive < CursorDelay))
  /\ LET rems == {timers[i].rem : i \in 1..Len(timers)}
         step == IF rems = {} THEN d
                 ELSE Min(d, CHOOSE r \in rems : \A q \in rems : r <= q)
     IN  Becomes([On("advance", "", 0) EXCEPT
                    !.timers = [i \in 1..Len(timers) |->
                                  [timers[i] EXCEPT !.rem = @ - step]],
                    !.sinceMove = Min(@ + step, CursorDelay),
                    !.sinceActive = Min(@ + step, CursorDelay)])

\* ----------------------------------------------------------- specifications

\* Action A, while at most MaxPending navigations and cursor countdowns are
\* in flight: a navigation is in flight until its announcement node is
\* removed, a countdown until its timer fires or is cleared.
InFlight ==
  Len(SelectSeq(timers, LAMBDA t : t.kind \in {"announce", "cursor"}))

Calm(A) == A /\ InFlight' <= MaxPending

Keys ==
  NextKeys \cup PrevKeys \cup DigitKeys
    \cup {"Home", "End", "f", "F", "Escape", "p", "P", "a", "8"}

TouchXs == {0, 50, 101}

\* Every event source, with a few inputs each.
Next ==
  \/ \E k \in {"ArrowRight", "End", "f", "p"} : Calm(KeyDown(k))
  \/ TouchStart(0)
  \/ Calm(TouchEnd(101))
  \/ Calm(DotClick(totalSlides))
  \/ Calm(HashChange(SlideHash(4)))
  \/ \E n \in {0, totalSlides + 1} : Calm(CallGoToSlide(n))
  \/ Calm(MouseMove)
  \/ Calm(FullscreenChange)
  \/ BrowserAnswer(TRUE)
  \/ BrowserLeave
  \/ LoadComplete
  \/ LoadingScreenRemoved
  \/ SlideEnter
  \/ SlideCleanup
  \/ CursorHide
  \/ AnnouncementRemoved
  \/ Advance(CursorDelay)

Spec == InitWith(NoHash) /\ [][Next]_vars

\* Calls of the navigation methods, dots and navigation keys.
NextApi ==
  \/ \E n \in 0..(totalSlides + 1) : Calm(CallGoToSlide(n))
  \/ Calm(CallNextSlide)
  \/ Calm(CallPreviousSlide)
  \/ \E n \in {1, totalSlides} : Calm(DotClick(n))
  \/ \E k \in {"ArrowRight", "PageUp"} : Calm(KeyDown(k))
  \/ LoadComplete
  \/ LoadingScreenRemoved
  \/ SlideEnter
  \/ SlideCleanup
  \/ AnnouncementRemoved
  \/ Advance(CursorDelay)

SpecApi == InitWith(NoHash) /\ [][NextApi]_vars

\* The page opened with any fragment, and sent to any other.
NextHash ==
  \/ \E h \in Hashes : Calm(HashChange(h))
  \/ \E n \in {2, totalSlides} : Calm(DotClick(n))
  \/ Calm(LoadComplete)
  \/ LoadingScreenRemoved
  \/ SlideEnter
  \/ SlideCleanup
  \/ AnnouncementRemoved
  \/ Advance(CursorDelay)

SpecHash == Init /\ [][NextHash]_vars

\* Input before and after the load callback.
NextLoad ==
  \/ \E k \in {"ArrowRight", "3", "p"} : Calm(KeyDown(k))
  \/ TouchStart(101)
  \/ Calm(TouchEnd(0))
  \/ Calm(DotClick(3))
  \/ SoundClick
  \/ Calm(HashChange(SlideHash(4)))
  \/ LoadComplete
  \/ LoadingScreenRemoved
  \/ SlideEnter
  \/ SlideCleanup
  \/ CursorHide
  \/ AnnouncementRemoved
  \/ Advance(CursorDelay)

SpecLoad == InitWith(NoHash) /\ [][NextLoad]_vars

\* Touch gestures.
NextTouch ==
  \/ \E x \in TouchXs : TouchStart(x)
  \/ \E x \in TouchXs : Calm(TouchEnd(x))
  \/ LoadComplete
  \/ LoadingScreenRemoved
  \/ SlideEnter
  \/ SlideCleanup
  \/ AnnouncementRemoved
  \/ Advance(CursorDelay)

SpecTouch == InitWith(NoHash) /\ [][NextTouch]_vars

\* Presentation mode, fullscreen and the cursor timer.
NextMode ==
  \/ \E k \in {"f", "p", "Escape"} : KeyDown(k)
  \/ MouseMove
  \/ FullscreenChange
  \/ \E grant \in BOOLEAN : BrowserAnswer(grant)
  \/ BrowserLeave
  \/ LoadComplete
  \/ LoadingScreenRemoved
  \/ CursorHide
  \/ \E d \in {1000, CursorDelay} : Advance(d)

SpecMode == InitWith(NoHash) /\ [][NextMode]_vars

\* Every key, before and after the load callback.
NextKeyboard ==
  \/ \E k \in Keys : Calm(KeyDown(k))
  \/ LoadComplete
  \/ LoadingScreenRemoved
  \/ SlideEnter
  \/ SlideCleanup
  \/ CursorHide
  \/ AnnouncementRemoved
  \/ Advance(CursorDelay)

SpecKeyboard == InitWith(NoHash) /\ [][NextKeyboard]_vars

\* Fullscreen requests, by key and by call, and the browser's answers.
NextFullscreen ==
  \/ \E k \in {"f", "F", "Escape", "p"} : KeyDown(k)
  \/ CallToggleFullscreen
  \/ CallEnterFullscreen
  \/ CallExitFullscreen
  \/ MouseMove
  \/ FullscreenChange
  \/ \E grant \in BOOLEAN : BrowserAnswer(grant)
  \/ BrowserLeave
  \/ LoadComplete
  \/ LoadingScreenRemoved
  \/ CursorHide
  \/ Advance(CursorDelay)

SpecFullscreen == InitWith(NoHash) /\ [][NextFullscreen]_vars

\* Action A, while at most MaxOverlap navigations are in flight.
Rapid(A) == A /\ InFlight' <= MaxOverlap

\* Navigation calls on the loaded page that follow each other before the
\* transition callbacks of the earlier ones have run: at the same instant,
\* or when a callback of an earlier one has just run.
NextRapid ==
  \/ \E n \in 1..3 : Rapid(CallGoToSlide(n))
  \/ SlideEnter
  \/ SlideCleanup
  \/ AnnouncementRemoved
  \/ Advance(CursorDelay)

SpecRapid == InitLoaded /\ [][NextRapid]_vars

\* ------------------------------------------------------------------- claims

\* Everything but the record of the last event.
world == <<currentSlide, isFullscreen, isPresentationMode, soundEnabled,
           touchStartX, touchEndX, cursorTimeout, isLoaded, slideClass,
           ariaHidden, navDots, progressWidth, presentationClass, soundToggle,
           loadingScreen, announcements, animated, hash, timers,
           fullscreenElement, fsRequests, fsEvents, touchDown, sinceMove,
           sinceActive>>

HasTimer(kind) == \E i \in 1..Len(timers) : timers[i].kind = kind

\* C1: right after goToSlide(n) has returned, for n in 1..totalSlides,
\* getCurrentSlideInfo().current is n, whether or not the transition
\* callbacks have run.
C1_CurrentIsTarget ==
  (last.op \in {"goToSlide", "dot"} /\ last.n \in Slides)
    => getCurrentSlideInfo(State).current = last.n

\* goToSlide(totalSlides) has returned and its first callback is pending.
C1_Witness ==
  /\ last.op = "goToSlide"
  /\ last.n = totalSlides
  /\ getCurrentSlideInfo(State).current = totalSlides
  /\ HasTimer("enter")
  /\ "active" \notin slideClass[totalSlides]

\* C2: goToSlide(n) with n < 1, n > totalSlides or n the current slide
\* changes nothing (slide marks, progress, dots, fragment, timers,
\* announcements and the rest) and attempts no sound.
C2_NoOp ==
  [][(/\ last'.op \in {"goToSlide", "dot"}
      /\ (last'.n < 1 \/ last'.n > totalSlides \/ last'.n = currentSlide))
       => (UNCHANGED world /\ ~last'.played)]_vars

\* goToSlide(totalSlides + 1) was called on the last slide.
C2_Witness ==
  /\ last.op = "goToSlide"
  /\ last.n = totalSlides + 1
  /\ currentSlide = totalSlides
  /\ isLoaded

\* C3: nextSlide() on the last slide and previousSlide() on the first one
\* change nothing; anywhere else they move to the next and to the previous
\* slide.
C3_NoWraparound ==
  [][/\ (last'.op \in {"nextSlide", "keydown"} /\ last'.nav = "next")
          => IF currentSlide = totalSlides THEN UNCHANGED world
             ELSE currentSlide' = currentSlide + 1
     /\ (last'.op \in {"previousSlide", "keydown"} /\ last'.nav = "prev")
          => IF currentSlide = 1 THEN UNCHANGED world
             ELSE currentSlide' = currentSlide - 1]_vars

\* nextSlide() was called on the last slide, with no navigation in flight.
C3_Witness ==
  /\ last.op = "nextSlide"
  /\ last.nav = "next"
  /\ currentSlide = totalSlides
  /\ announcements = <<>>

\* C4: in every reachable state 1 <= currentSlide <= totalSlides.
C4_SlideInRange == 1 <= currentSlide /\ currentSlide <= totalSlides

\* ArrowRight pressed on the last slide, in fullscreen, after a swipe.
C4_Witness ==
  /\ last.op = "keydown"
  /\ last.key = "ArrowRight"
  /\ last.nav = "next"
  /\ currentSlide = totalSlides
  /\ isFullscreen
  /\ touchEndX = 101

\* C5: a fragment #slideK with K in 1..totalSlides, present when the load
\* callback runs or set at a hash change after it, makes K the current
\* slide.
C5_FragmentNavigates ==
  \A k \in Slides :
    (isLoaded /\ last.op \in {"load", "hashchange"} /\ hash = SlideHash(k))
      => currentSlide = k

\* No slide has this fragment: the number is out of range or missing, or
\* the prefix is another one.
BadFragment(h) == \A k \in Slides : h # SlideHash(k)

NavTimers(ts) ==
  SelectSeq(ts, LAMBDA t : t.kind \in {"enter", "cleanup", "announce"})

\* C6: a fragment that names no slide is ignored.  A hash change to it
\* changes nothing but the fragment; the load callback, finding it, leaves
\* the current slide, the slide marks, the progress, the dots, the
\* fragment, the announcements and the transition timers as they were.
C6_BadFragmentIgnored ==
  [][/\ \A h \in Hashes :
          (BadFragment(h) /\ HashChange(h))
            => UNCHANGED <<currentSlide, isFullscreen, isPresentationMode,
                           soundEnabled, touchStartX, touchEndX,
                           cursorTimeout, isLoaded, slideClass, ariaHidden,
                           navDots, progressWidth, presentationClass,
                           soundToggle, loadingScreen, announcements,
                           animated, timers, fullscreenElement, fsRequests,
                           fsEvents>>
     /\ (last'.op = "load" /\ BadFragment(hash))
          => /\ UNCHANGED <<currentSlide, slideClass, ariaHidden, navDots,
                            progressWidth, hash, announcements>>
             /\ NavTimers(timers') = NavTimers(timers)
             /\ ~last'.played]_vars

\* The fragment changed to #slide0 on slide 2.
C6_Witness ==
  /\ last.op = "hashchange"
  /\ hash = SlideHash(0)
  /\ currentSlide = 2
  /\ isLoaded

\* C7: while isLoaded is false no key, touch, dot click, hash change or
\* click on the sound button changes currentSlide, isPresentationMode or
\* soundEnabled.
C7_InputIgnoredBeforeLoad ==
  [][(/\ ~isLoaded
      /\ last'.op \in {"keydown", "touchstart", "touchend", "dot",
                       "hashchange", "sound"})
       => UNCHANGED <<currentSlide, isPresentationMode, soundEnabled>>]_vars

\* C8: a touch-end handled after the load, n pixels from where its finger
\* touched: no navigation for |n| <= swipeThreshold, nextSlide for
\* n < -swipeThreshold, previousSlide for n > swipeThreshold.
C8_SwipeByDistance ==
  (last.op = "touchend" /\ isLoaded)
    => /\ Abs(last.n) <= swipeThreshold => last.nav = "none"
       /\ last.n < 0 - swipeThreshold => last.nav = "next"
       /\ last.n > swipeThreshold => last.nav = "prev"

CursorHidden == "presentation-mode" \in presentationClass

\* C9: in presentation mode the cursor-hidden class is on only when
\* CursorDelay ms have passed since the mode became active and since the
\* last mouse movement.
C9_HiddenOnlyAfterDelay ==
  (isPresentationMode /\ CursorHidden)
    => (sinceActive >= CursorDelay /\ sinceMove >= CursorDelay)

\* C10: in presentation mode the cursor-hidden class is off right after a
\* mouse movement, and is on only when CursorDelay ms have passed since the
\* last movement.
C10_HiddenOnlyAfterStillness ==
  /\ (last.op = "mousemove" /\ isPresentationMode) => ~CursorHidden
  /\ (isPresentationMode /\ CursorHidden) => sinceMove >= CursorDelay

CursorTimers == SelectSeq(timers, LAMBDA t : t.kind = "cursor")

\* C11: in every reachable state at most one cursor-hide timer is pending,
\* and none is while presentation mode is off (exitPresentationMode leaves
\* none behind).
C11_OneHideTimer ==
  /\ Len(CursorTimers) <= 1
  /\ ~isPresentationMode => CursorTimers = <<>>

\* The mouse moved 1000ms after the mode became active: the timer started
\* then is gone, the new one has its whole delay to wait.
C11_Witness ==
  /\ last.op = "mousemove"
  /\ isPresentationMode
  /\ sinceActive = 1000
  /\ Len(CursorTimers) = 1
  /\ CursorTimers[1].rem = CursorDelay

\* C12: a fullscreenchange notification that finds a fullscreen element
\* leaves isFullscreen and isPresentationMode true.
C12_FullscreenEntersMode ==
  (last.op = "fullscreenchange" /\ fullscreenElement)
    => (isFullscreen /\ isPresentationMode)

\* The notification came 1000ms after the mode had become active with the P
\* key, while that activation's timer was pending.
C12_Witness ==
  /\ last.op = "fullscreenchange"
  /\ fullscreenElement
  /\ isFullscreen
  /\ isPresentationMode
  /\ sinceActive = 1000
  /\ Len(CursorTimers) = 1
  /\ CursorTimers[1].rem = CursorDelay

\* C13: in every reachable state the progress indicator is
\* currentSlide / totalSlides, as a percentage.
C13_ProgressIsCurrent ==
  progressWidth[1] * totalSlides = currentSlide * 100 * progressWidth[2]

\* On the last slide, reached by its dot, with the transition under way.
C13_Witness ==
  /\ last.op = "dot"
  /\ currentSlide = totalSlides
  /\ progressWidth = <<totalSlides * 100, totalSlides>>
  /\ HasTimer("enter")

\* C14: once loaded, an Escape key-down leaves isPresentationMode false,
\* the cursor-hidden class off and no hide timer pending, and adds an exit
\* request exactly when isFullscreen is true.
C14_Escape ==
  [][(isLoaded /\ last'.op = "keydown" /\ last'.key = "Escape")
       => /\ ~isPresentationMode'
          /\ "presentation-mode" \notin presentationClass'
          /\ \A i \in 1..Len(timers') : timers'[i].kind # "cursor"
          /\ fsRequests' = IF isFullscreen THEN Append(fsRequests, "exit")
                           ELSE fsRequests]_vars

\* Escape in fullscreen: the mode is off, the exit request is with the
\* browser, isFullscreen waits for the notification.
C14_Witness ==
  /\ last.op = "keydown"
  /\ last.key = "Escape"
  /\ isFullscreen
  /\ fsRequests = <<"exit">>
  /\ ~isPresentationMode
  /\ CursorTimers = <<>>

\* C15: once loaded, a key-down of ArrowRight, space or PageDown is
\* nextSlide, of ArrowLeft or PageUp previousSlide, Home makes slide 1
\* current, End slide totalSlides, a digit key k in 1..7 slide k, and every
\* other key leaves currentSlide as it is.
C15_KeyMap ==
  [][(isLoaded /\ last'.op = "keydown")
       => LET key == last'.key
          IN  /\ key \in {"ArrowRight", " ", "PageDown"}
                   => /\ last'.nav = "next"
                      /\ currentSlide' = IF currentSlide < totalSlides
                                         THEN currentSlide + 1
                                         ELSE currentSlide
              /\ key \in {"ArrowLeft", "PageUp"}
                   => /\ last'.nav = "prev"
                      /\ currentSlide' = IF currentSlide > 1
                                         THEN currentSlide - 1
                                         ELSE currentSlide
              /\ key = "Home" => currentSlide' = 1
              /\ key = "End" => currentSlide' = totalSlides
              /\ \A k \in 1..7 : key = Digits[k + 1] => currentSlide' = k
              /\ key \notin {"ArrowRight", " ", "PageDown", "ArrowLeft",
                             "PageUp", "Home", "End", "1", "2", "3", "4",
                             "5", "6", "7"}
                   => currentSlide' = currentSlide]_vars

\* The space bar was pressed on slide 5, reached with the key 5.
C15_Witness ==
  /\ isLoaded
  /\ last.op = "keydown"
  /\ last.key = " "
  /\ last.nav = "next"
  /\ currentSlide = 6
  /\ "prev" \in slideClass[5]

\* C16: the mute indicator is shown exactly when soundEnabled is false; a
\* sound toggle inverts soundEnabled and the indicator, and no other event
\* changes them, so that two toggles, whatever happens in between, give
\* back the values they started from.
C16_SoundToggle ==
  /\ soundToggle.muted = ~soundEnabled
  /\ [][/\ soundToggle'.muted = ~soundEnabled'
        /\ soundToggle'.icon = IF soundEnabled' THEN "fas fa-volume-up"
                               ELSE "fas fa-volume-mute"
        /\ last'.op = "sound"
             => /\ soundEnabled' = ~soundEnabled
                /\ soundToggle'.muted = ~soundToggle.muted
        /\ last'.op # "sound"
             => UNCHANGED <<soundEnabled, soundToggle>>]_vars

\* The sound is on again after a second click on the button, while a
\* navigation to slide 3 is under way.
C16_Witness ==
  /\ last.op = "sound"
  /\ soundEnabled
  /\ soundToggle = InitialSoundToggle
  /\ currentSlide = 3
  /\ HasTimer("cleanup")

\* C17: only the fullscreenchange handler changes isFullscreen.
\* toggleFullscreen, enterFullscreen, exitFullscreen and the keys F and
\* Escape add a request and leave the flag alone; toggleFullscreen (the F
\* key, once loaded) asks to enter exactly when the flag is false, also
\* when an earlier request was granted and not yet notified.
C17_FlagFollowsNotification ==
  [][/\ last'.op # "fullscreenchange" => isFullscreen' = isFullscreen
     /\ (\/ last'.op = "toggleFullscreen"
         \/ (isLoaded /\ last'.op = "keydown" /\ last'.key \in {"f", "F"}))
          => fsRequests' = Append(fsRequests, IF isFullscreen THEN "exit"
                                              ELSE "enter")
     /\ last'.op = "enterFullscreen"
          => fsRequests' = Append(fsRequests, "enter")
     /\ last'.op = "exitFullscreen"
          => fsRequests' = Append(fsRequests, "exit")
     /\ (isLoaded /\ last'.op = "keydown" /\ last'.key = "Escape")
          => fsRequests' = IF isFullscreen THEN Append(fsRequests, "exit")
                           ELSE fsRequests]_vars

\* F pressed a second time: the first request was granted, the document
\* is in fullscreen, the notification has not been delivered, and the
\* second request asks to enter again.
C17_Witness ==
  /\ last.op = "keydown"
  /\ last.key = "f"
  /\ fullscreenElement
  /\ fsEvents = 1
  /\ ~isFullscreen
  /\ fsRequests = <<"enter">>

\* The transition callbacks that are pending for slide a, left by a
\* goToSlide call.
Pending(ts, a) ==
  SelectSeq(ts, LAMBDA t : t.kind \in {"enter", "cleanup"} /\ t.arg = a)

\* C18: a successful goToSlide marks the slide it leaves and schedules its
\* entering callback EnterDelay ms later, which schedules the cleanup
\* CleanupDelay ms later; a goToSlide call cancels no pending callback; and
\* a slide that is not the current one loses its 'leaving' mark only when
\* the cleanup of the last call that left it runs, not when a callback of
\* an earlier call does.
C18_LeavingMarkKept ==
  [][/\ (last'.op = "goToSlide" /\ currentSlide' # currentSlide)
          => /\ "prev" \in slideClass'[currentSlide]
             /\ SubSeq(timers', 1, Len(timers)) = timers
             /\ \E i \in 1..Len(timers') :
                  /\ timers'[i].kind = "enter"
                  /\ timers'[i].arg = currentSlide
                  /\ timers'[i].rem = EnterDelay
     /\ last'.op = "enter"
          => \E i \in 1..Len(timers') :
               /\ timers'[i].kind = "cleanup"
               /\ timers'[i].arg = timers[DueIndex].arg
               /\ timers'[i].rem = CleanupDelay
     /\ \A a \in Slides :
          ("prev" \in slideClass[a] /\ "prev" \notin slideClass'[a])
            => \/ a = currentSlide
               \/ /\ last'.op = "cleanup"
                  /\ timers[DueIndex].arg = a
                  /\ Pending(timers', a) = <<>>]_vars

\* C19: in every reachable state only the current slide carries 'active'
\* (so at most one slide does), and no slide carries 'active' and 'leaving'
\* together.
C19_OneActive ==
  /\ \A i \in Slides : "active" \in slideClass[i] => i = currentSlide
  /\ Cardinality({i \in Slides : "active" \in slideClass[i]}) <= 1
  /\ \A i \in Slides : ~({"active", "prev"} \subseteq slideClass[i])

\* goToSlide(2) and goToSlide(3) at the same instant on slide 1: both
\* entering callbacks have run, slide 3 is active, slide 2 was skipped.
C19_Witness ==
  /\ currentSlide = 3
  /\ slideClass[3] = {"active"}
  /\ slideClass[2] = {"prev"}
  /\ slideClass[1] = {"prev"}
  /\ Len(Pending(timers, 1)) = 1
  /\ Len(Pending(timers, 2)) = 1
  /\ \A i \in 1..Len(timers) :
       timers[i].kind \in {"enter", "cleanup"}
         => (timers[i].kind = "cleanup" /\ timers[i].rem = CleanupDelay)

\* C20: when no transition callback is pending, the current slide carries
\* 'active', no other slide does, and no slide carries 'leaving'.
C20_SettledMarks ==
  (\A i \in 1..Len(timers) : timers[i].kind \notin {"enter", "cleanup"})
    => slideClass = [i \in Slides |-> IF i = currentSlide THEN {"active"}
                                      ELSE {}]

\* Three navigations less than 150ms apart have settled on slide 2: their
\* announcements are still in the document, their callbacks have all run.
C20_Witness ==
  /\ \A i \in 1..Len(timers) : timers[i].kind \notin {"enter", "cleanup"}
  /\ Len(announcements) = 3
  /\ currentSlide = 2
  /\ slideClass[2] = {"active"}

\* C21: in every reachable state the cursor-hidden class is on only while
\* isPresentationMode is true.
C21_HiddenOnlyInMode ==
  "presentation-mode" \in presentationClass => isPresentationMode

\* The mouse moved in fullscreen after the mode, entered with it, was left:
\* the class is off and no timer was started.
C21_Witness ==
  /\ last.op = "mousemove"
  /\ isFullscreen
  /\ ~isPresentationMode
  /\ "presentation-mode" \notin presentationClass
  /\ CursorTimers = <<>>

====
